---- MODULE Spec2Model ----
(***************************************************************************)
(* Model of sp_rb_interactive.py: the restore submission of main(), the    *)
(* polling loop wait_for_file() with its three probes, the candidate       *)
(* ranking done inline in wait_for_file(), and the download step.          *)
(*                                                                         *)
(* Strings are sequences of one-character strings, so that substring,      *)
(* prefix, percent-encoding and percent-decoding are computed, not assumed.*)
(* An Optional value is a sequence of length 0 (None) or 1.                *)
(***************************************************************************)
EXTENDS Integers, Sequences, FiniteSets, TLC

\* ---------------------------------------------------------------- bounds
\* Longest list a backend answer (children listing, accumulated search rows)
\* may hold.
MaxLen == 2
\* Most pieces a location given to derive_drive_rel_path is made of.
MaxParts == 5

\* ------------------------------------------------------- program constants
\* attempts=6 passed by main() to wait_for_file (also its default).
Attempts == 6

\* Status codes gpost_json accepts.
AcceptedStatuses == {200, 201, 202, 204, 207}

\* ---------------------------------------------------------------- strings
None == <<>>
Some(x) == <<x>>

StartsWith(s, p) ==
    /\ Len(p) <= Len(s)
    /\ SubSeq(s, 1, Len(p)) = p

\* Python's `sub in s`.
IsSubstr(sub, s) ==
    \E k \in 0..(Len(s) - Len(sub)) : SubSeq(s, k + 1, k + Len(sub)) = sub

\* Last index (1-based) of character c in s, 0 when absent.
RECURSIVE LastIndexOf(_, _)
LastIndexOf(s, c) ==
    IF s = <<>> THEN 0
    ELSE IF s[Len(s)] = c THEN Len(s)
    ELSE LastIndexOf(SubSeq(s, 1, Len(s) - 1), c)

\* name.rsplit(".", 1)[0]
RSplitBase(nm) ==
    IF LastIndexOf(nm, ".") = 0 THEN nm
    ELSE SubSeq(nm, 1, LastIndexOf(nm, ".") - 1)

\* drive_rel_path.replace(" ", "%20")
RECURSIVE ReplaceSpace(_)
ReplaceSpace(s) ==
    IF s = <<>> THEN <<>>
    ELSE IF Head(s) = " " THEN <<"%", "2", "0">> \o ReplaceSpace(Tail(s))
    ELSE <<Head(s)>> \o ReplaceSpace(Tail(s))

\* The percent escapes of the modelled alphabet: two hex digits -> character.
PctEscapes == {<<"2", "0">>, <<"2", "F">>}
PctDecode(pair) == IF pair = <<"2", "0">> THEN " " ELSE "/"

\* urllib.parse.unquote: every valid %XX is decoded, anything else is kept.
RECURSIVE Unquote(_)
Unquote(s) ==
    IF s = <<>> THEN <<>>
    ELSE IF Head(s) = "%" /\ Len(s) >= 3 /\ SubSeq(s, 2, 3) \in PctEscapes
         THEN <<PctDecode(SubSeq(s, 2, 3))>> \o Unquote(SubSeq(s, 4, Len(s)))
    ELSE <<Head(s)>> \o Unquote(Tail(s))

\* Code points of the characters timestamps are written with.
Ord(c) == CASE c = "1" -> 49 [] c = "2" -> 50 [] c = "T" -> 84 [] OTHER -> 0

\* Python's a < b on strings: lexicographic by code point.
RECURSIVE StrLess(_, _)
StrLess(a, b) ==
    IF b = <<>> THEN FALSE
    ELSE IF a = <<>> THEN TRUE
    ELSE IF Head(a) = Head(b) THEN StrLess(Tail(a), Tail(b))
    ELSE Ord(Head(a)) < Ord(Head(b))

\* ------------------------------------------------------------ input space
\* File names of the recycle-bin entry: "r.x" and "r" (no extension).
FileNames == {<<"r", ".", "x">>, <<"r">>}

\* Derived folder: absent (None or ""), or "S D/F".
Folder == <<"S", " ", "D", "/", "F">>
DriveRelPaths == {None, Folder}

\* parentReference.path values a search row may carry ("/r:/" abbreviates
\* "/drive/root:/"): the folder percent-encoded, the folder with a raw space
\* and an encoded slash, another folder, and no path at all.
PEnc   == <<"/", "r", ":", "/", "S", "%", "2", "0", "D", "/", "F">>
PRaw   == <<"/", "r", ":", "/", "S", " ", "D", "%", "2", "F", "F">>
POther == <<"/", "r", ":", "/", "X">>
Parents == {PEnc, PRaw, POther, <<>>}

\* Names a child of the folder may carry: the name itself, a renamed copy
\* "r1.x", an unrelated "q.x", and NoName for a missing or non-string name.
NoName == <<>>
ChildNames == {<<"r", ".", "x">>, <<"r", "1", ".", "x">>, <<"q", ".", "x">>, NoName}

\* lastModifiedDateTime values: "T1" < "T2"; NoTime for a row without one.
NoTime == <<>>
Times == {NoTime, <<"T", "1">>, <<"T", "2">>}

Item(nm, lm, par) == [name |-> nm, lm |-> lm, parent |-> par]
ChildItems == {Item(n, t, PEnc) : n \in ChildNames, t \in Times}
SearchItems(nm) == {Item(nm, t, p) : t \in Times, p \in Parents}
ExactItems(nm) == {Item(nm, t, PEnc) : t \in Times \ {NoTime}}

\* All sequences over S of length at most n.
SeqsUpTo(S, n) == UNION {[1..k -> S] : k \in 0..n}

\* Identifier of the chosen recycle-bin entry and another id of the site.
RbId == "id1"
\* The ids main asks to restore: [rb_id].
RequestedIds == {RbId}
AckIds == {"id1", "id2"}

\* Responses of the restore endpoint.
Statuses == {200, 201, 202, 203, 204, 206, 207, 400, 404, 500}
BodyKinds == {"empty", "malformed", "nondict", "novalue", "nullvalue"}
RestoreResponses ==
    [status : Statuses, kind : BodyKinds, ids : {{}}]
      \cup [status : Statuses, kind : {"value"}, ids : SUBSET AckIds]

NextLinks == {"linkA", "linkB"}

\* Responses of a read endpoint (one GET): a JSON answer with its rows and an
\* optional @odata.nextLink, a non-ok status, or a failed request.
ReadResponse(k, rows, nxt) == [kind |-> k, rows |-> rows, next |-> nxt]
FailedReads ==
    {ReadResponse(k, <<>>, None) : k \in {"notfound", "error", "interrupt"}}
ExactResponses(nm) ==
    {ReadResponse("ok", <<it>>, None) : it \in ExactItems(nm)} \cup FailedReads
ChildrenResponses ==
    {ReadResponse("ok", rows, None) : rows \in SeqsUpTo(ChildItems, MaxLen)}
      \cup FailedReads
PageResponses(nm, room) ==
    {ReadResponse("ok", rows, nxt) :
        rows \in SeqsUpTo(SearchItems(nm), room),
        nxt \in {None} \cup {Some(l) : l \in NextLinks}}
      \cup FailedReads

\* ------------------------------------------------------------ HTTP helpers
\* gget: RuntimeError on a non-ok status; requests.get or r.json() may raise
\* too (timeout, connection error, unparsable body).  "none": no exception.
gget(r) ==
    IF r.kind = "ok" THEN "none"
    ELSE IF r.kind = "notfound" THEN "RuntimeError"
    ELSE IF r.kind = "interrupt" THEN "KeyboardInterrupt"
    ELSE "RequestException"

\* gpost_json: RuntimeError unless the status is one of the accepted codes;
\* then {} for an empty body, else r.json(), which raises on a malformed body.
\* Variant: the partial-success status is missing from the accepted codes.
AcceptsWithout207(status) == status \in {200, 201, 202, 204}

\* Variant: every 2xx status is accepted, as r.ok would.
AcceptsSuccessClass(status) == status \in 200..299

GpostAccepts(status) == status \in AcceptedStatuses

gpost_json(r) ==
    IF ~GpostAccepts(r.status)
      THEN [raised |-> "RuntimeError", kind |-> "none", ids |-> {}]
    ELSE IF r.kind = "empty"
      THEN [raised |-> "none", kind |-> "novalue", ids |-> {}]
    ELSE IF r.kind = "malformed"
      THEN [raised |-> "JSONDecodeError", kind |-> "none", ids |-> {}]
    ELSE [raised |-> "none", kind |-> r.kind, ids |-> r.ids]

\* batch_restore only builds the url and the body and returns gpost_json's
\* result.
batch_restore(r) == gpost_json(r)

\* main, line 283: the ids echoed by the response. A non-dict answer and a
\* dict without "value" give []; "value": null cannot be iterated.
EchoRaises(json) == json.kind = "nullvalue"
Echoed(json) == IF json.kind = "value" THEN json.ids ELSE {}

\* ------------------------------------------------------------------ probes
\* `except Exception` of the three probes and of main's download: every
\* error of a request or of a file is an Exception, KeyboardInterrupt is not.
\* Variant: a handler that takes RuntimeError only.
ExceptRuntimeErrorOnly(e) == e = "RuntimeError"

\* Variant: a bare `except:`, which takes KeyboardInterrupt as well.
ExceptBaseException(e) == TRUE

\* Variant: a handler for the errors of the request only, not of the file.
ExceptRequestErrors(e) ==
    e \in {"RuntimeError", "RequestException", "JSONDecodeError"}

ExceptException(e) ==
    e \in {"RuntimeError", "RequestException", "JSONDecodeError", "OSError"}

\* What leaves a try block that raised e: nothing when the handler takes it.
Escapes(e) == IF e = "none" \/ ExceptException(e) THEN "none" ELSE e

\* Variant: the request goes out even without a folder.
ExactSendsAlways(rel, nm) == TRUE

\* get_drive_item_by_exact_path: no request without a folder or a name;
\* the handler returns None.
ExactSendsRequest(rel, nm) == rel # <<>> /\ nm # <<>>

get_drive_item_by_exact_path(rel, nm, r) ==
    IF ~ExactSendsRequest(rel, nm) THEN [raised |-> "none", value |-> None]
    ELSE IF gget(r) # "none" THEN [raised |-> Escapes(gget(r)), value |-> None]
    ELSE [raised |-> "none", value |-> Some(r.rows[1])]

\* list_children: [] without a folder; the handler returns [].
list_children(rel, r) ==
    IF rel = <<>> THEN [raised |-> "none", value |-> <<>>]
    ELSE IF gget(r) # "none" THEN [raised |-> Escapes(gget(r)), value |-> <<>>]
    ELSE [raised |-> "none", value |-> r.rows]

\* search_by_name, one page of list(paginate(url, tok)): an exception on any
\* page discards the rows gathered so far and the handler returns [].
\* more: another page follows (@odata.nextLink is set).
search_page(acc, r) ==
    IF gget(r) # "none"
      THEN [raised |-> Escapes(gget(r)), value |-> <<>>, more |-> FALSE]
    ELSE [raised |-> "none", value |-> acc \o r.rows, more |-> r.next # None]

\* ----------------------------------------------------------------- ranking
IsStr(nm) == nm # NoName

\* Line 194: children whose name equals the name or starts with its stem.
NameMatches(c, nm) ==
    IsStr(c.name) /\ (c.name = nm \/ StartsWith(c.name, RSplitBase(nm)))

FilterCandidates(children, nm) ==
    SelectSeq(children, LAMBDA c : NameMatches(c, nm))

\* Sort key: c.get("lastModifiedDateTime", ""); NoTime is "" already.
Key(c) == c.lm

\* list.sort(key=..., reverse=True) is stable: equal keys keep their order.
RECURSIVE InsertDesc(_, _)
InsertDesc(x, s) ==
    IF s = <<>> THEN <<x>>
    ELSE IF ~StrLess(Key(Head(s)), Key(x))
      THEN <<Head(s)>> \o InsertDesc(x, Tail(s))
    ELSE <<x>> \o s

\* Variant: reverse=True is missing, the oldest comes first.
RECURSIVE InsertAsc(_, _)
InsertAsc(x, s) ==
    IF s = <<>> THEN <<x>>
    ELSE IF ~StrLess(Key(x), Key(Head(s)))
      THEN <<Head(s)>> \o InsertAsc(x, Tail(s))
    ELSE <<x>> \o s

RECURSIVE SortAscInto(_, _)
SortAscInto(s, acc) ==
    IF s = <<>> THEN acc ELSE SortAscInto(Tail(s), InsertAsc(Head(s), acc))

SortOldestFirst(s) == SortAscInto(s, <<>>)

RECURSIVE SortInto(_, _)
SortInto(s, acc) ==
    IF s = <<>> THEN acc ELSE SortInto(Tail(s), InsertDesc(Head(s), acc))

SortNewestFirst(s) == SortInto(s, <<>>)

\* Line 206: the row's parent path names the expected folder.
InExpectedFolder(r, rel) ==
    \/ IsSubstr(ReplaceSpace(rel), r.parent)
    \/ IsSubstr(rel, Unquote(r.parent))

\* Variant: the folder preference is skipped.
PreferredIgnoresFolder(results, rel) == results

\* Lines 201-208: results = pref or results, only with a folder.
Preferred(results, rel) ==
    IF rel = <<>> THEN results
    ELSE IF SelectSeq(results, LAMBDA r : InExpectedFolder(r, rel)) # <<>>
      THEN SelectSeq(results, LAMBDA r : InExpectedFolder(r, rel))
    ELSE results

\* Variant: an index one too high, results[1].
PickSecondNewest(cands) ==
    IF Len(cands) < 2 THEN [raised |-> "IndexError", value |-> None]
    ELSE [raised |-> "none", value |-> Some(SortNewestFirst(cands)[2])]

\* Lines 209-210: sort, newest first, and return results[0]; indexing an
\* empty list raises IndexError.
PickNewest(cands) ==
    IF cands = <<>> THEN [raised |-> "IndexError", value |-> None]
    ELSE [raised |-> "none", value |-> Some(SortNewestFirst(cands)[1])]

\* ------------------------------------------------------------ path deriver
\* The library token ("S D" abbreviates "Shared Documents") and the root
\* token of the fallback pattern ("s" abbreviates "sites").
Token == <<"S", " ", "D">>
SitesPrefix == <<"s", "/">>

\* str.lstrip(chars) and str.rstrip(chars), chars a set of characters.
RECURSIVE LStrip(_, _)
LStrip(s, chars) ==
    IF s # <<>> /\ Head(s) \in chars THEN LStrip(Tail(s), chars) ELSE s

RECURSIVE RStrip(_, _)
RStrip(s, chars) ==
    IF s # <<>> /\ s[Len(s)] \in chars
      THEN RStrip(SubSeq(s, 1, Len(s) - 1), chars)
      ELSE s

\* str.strip(): whitespace off both ends.
Whitespace == {" "}
Strip(s) == RStrip(LStrip(s, Whitespace), Whitespace)

\* Line 122: p = deleted_from_location.strip().lstrip("/")
TrimLocation(s) == LStrip(Strip(s), {"/"})

\* Start indices (1-based) of the occurrences of t in s.
Occurrences(s, t) ==
    {k \in 1..(Len(s) - Len(t) + 1) : SubSeq(s, k, k + Len(t) - 1) = t}

Max(S) == CHOOSE m \in S : \A n \in S : n <= m
Min(S) == CHOOSE m \in S : \A n \in S : m <= n

\* Variant: str.find, the first occurrence.
Find(s, t) == Min(Occurrences(s, t))

\* str.rfind, for a t that occurs in s.
RFind(s, t) == Max(Occurrences(s, t))

\* Variant: the segment after the root may be empty ([^/]* for [^/]+).
SitesRestEmptySegment(p) ==
    IF ~StartsWith(p, SitesPrefix) THEN None
    ELSE LET q == SubSeq(p, Len(SitesPrefix) + 1, Len(p))
             slashes == Occurrences(q, <<"/">>)
         IN IF slashes = {} \/ Min(slashes) = Len(q) THEN None
            ELSE Some(SubSeq(q, Min(slashes) + 1, Len(q)))

\* Line 127: re.match(r"^sites/[^/]+/(.+)$", p) and its group 1: the root,
\* one non-empty segment without a slash, a slash, a non-empty rest.
SitesRest(p) ==
    IF ~StartsWith(p, SitesPrefix) THEN None
    ELSE LET q == SubSeq(p, Len(SitesPrefix) + 1, Len(p))
             slashes == Occurrences(q, <<"/">>)
         IN IF slashes = {} \/ Min(slashes) = 1 \/ Min(slashes) = Len(q)
              THEN None
            ELSE Some(SubSeq(q, Min(slashes) + 1, Len(q)))

\* Variant: only None is taken for an absent location, "" is not.
IsNoneOnly(loc) == loc = None

\* Line 120: `if not deleted_from_location`: None or "".
NoLocation(loc) == loc = None \/ loc[1] = <<>>

\* derive_drive_rel_path: an Optional string in, an Optional string out.
derive_drive_rel_path(loc) ==
    IF NoLocation(loc) THEN None
    ELSE LET p == TrimLocation(loc[1]) IN
           IF IsSubstr(Token, p) THEN Some(SubSeq(p, RFind(p, Token), Len(p)))
           ELSE IF SitesRest(p) # None THEN SitesRest(p)
           ELSE Some(p)

\* What a truth test sees of an Optional string: None and "" are both
\* falsy, and drive_rel is only ever tested, joined or searched for.
OrEmpty(opt) == IF opt = None THEN <<>> ELSE opt[1]

\* deletedFromLocation of the chosen entry (line 277, `or ""`): missing,
\* "/" (derived as "") or "s/c/S D/F".
Locations ==
    {Some(<<>>), Some(<<"/">>), Some(<<"s", "/", "c", "/">> \o Folder)}

\* Inputs of derive_drive_rel_path taken alone: None, and every string made
\* of at most MaxParts of these pieces.
Pieces == {<<"/">>, <<" ">>, Token, <<"s">>, <<"a">>, <<"S">>}
RECURSIVE Concat(_)
Concat(ps) == IF ps = <<>> THEN <<>> ELSE Head(ps) \o Concat(Tail(ps))
DeriveInputs ==
    {None} \cup {Some(Concat(ps)) : ps \in SeqsUpTo(Pieces, MaxParts)}

\* ------------------------------------------------------------------ state
VARIABLES
    loc,        \* deleted_from_location: None, or one string
    derived,    \* what derive_drive_rel_path returned: None, or one string
    pc,         \* position of main / wait_for_file
    name,       \* fname: the entry's name
    drive_rel,  \* drive_rel: the derived folder, <<>> when absent
    resp,       \* the restore response main holds: None, or one response
    echoed,     \* main's echoed: ids echoed by the restore response
    raised,     \* exception that left main, "none" otherwise
    i,          \* completed iterations of the for loop of wait_for_file
    url,        \* paginate's url: "first" or the last nextLink
    children,   \* wait_for_file's children
    cand,       \* wait_for_file's cand
    results,    \* rows search_by_name has gathered / returned
    drive_item, \* what wait_for_file returned (None or one item)
    last,       \* last probe answered: which one, and how
    downloaded, \* outcome of download_file: "no", "ok", "failed"
    report,     \* final [info]/[warn] line printed by main
    trace       \* backend requests and sleeps so far, in order

vars == <<loc, derived, pc, name, drive_rel, resp, echoed, raised, i, url, children, cand,
          results, drive_item, last, downloaded, report, trace>>

Event(n, op) == [attempt |-> n, op |-> op]
\* last: the probe answered last, the kind of answer the backend gave
\* ("skipped": no request was sent) and what exact-path made of it.
Probe(p, k, got) == [probe |-> p, kind |-> k, got |-> got]
NoProbe == Probe("none", "none", None)

\* State after item selection (line 277): nothing derived or submitted yet.
Init ==
    /\ pc = "selected"
    /\ loc \in Locations
    /\ derived = None
    /\ name \in FileNames
    /\ drive_rel = <<>>
    /\ resp = None
    /\ echoed = {}
    /\ raised = "none"
    /\ i = 0
    /\ url = "first"
    /\ children = <<>>
    /\ cand = <<>>
    /\ results = <<>>
    /\ drive_item = None
    /\ last = NoProbe
    /\ downloaded = "no"
    /\ report = "none"
    /\ trace = <<>>

\* ---------------------------------------------------------------- actions
\* An exception nobody handles leaves main: the run ends with a traceback.
Crash(e) ==
    /\ pc' = IF e = "KeyboardInterrupt" THEN "aborted" ELSE "crashed"
    /\ raised' = e

\* main, line 278: drive_rel = derive_drive_rel_path(loc), once per run.
MainDerive ==
    /\ pc = "selected"
    /\ derived' = derive_drive_rel_path(loc)
    /\ drive_rel' = OrEmpty(derive_drive_rel_path(loc))
    /\ pc' = "restore"
    /\ UNCHANGED <<loc, name, resp, echoed, raised, i, url, children, cand,
                   results, drive_item, last, downloaded, report, trace>>

\* Variant: a failed restore is swallowed and the run goes on.
PropagatesNothing(e) == FALSE

\* main catches nothing but KeyboardInterrupt: whatever batch_restore raises
\* propagates out of main.
Propagates(e) == e # "none"

\* main, lines 280-287: submit the restore once, read the echoed ids and
\* print [ok] or [warn].
MainRestore ==
    /\ pc = "restore"
    /\ \E r \in RestoreResponses :
         LET out == batch_restore(r) IN
           /\ resp' = Some(r)
           /\ trace' = Append(trace, Event(0, IF out.raised = "none"
                                                 THEN "restore_ok"
                                                 ELSE "restore_error"))
           /\ IF Propagates(out.raised)
                THEN Crash(out.raised) /\ echoed' = {}
              ELSE IF EchoRaises(out)
                THEN Crash("TypeError") /\ echoed' = {}
              ELSE /\ echoed' = Echoed(out)
                   /\ pc' = "restored"
                   /\ raised' = "none"
    /\ UNCHANGED <<loc, derived, name, drive_rel, i, url, children, cand, results,
                   drive_item, last, downloaded, report>>

\* requests.post itself raises (timeout, connection error): no response.
MainRestoreNoResponse ==
    /\ pc = "restore"
    /\ trace' = Append(trace, Event(0, "restore_error"))
    /\ Crash("RequestException")
    /\ UNCHANGED <<loc, derived, name, drive_rel, resp, echoed, i, url, children, cand,
                   results, drive_item, last, downloaded, report>>

\* main, lines 289-291: call wait_for_file.  resp and echoed are never read
\* again, so the model drops them here.
MainCallWait ==
    /\ pc = "restored"
    /\ pc' = "loop"
    /\ resp' = None
    /\ echoed' = {}
    /\ UNCHANGED <<loc, derived, name, drive_rel, raised, i, url, children, cand, results,
                   drive_item, last, downloaded, report, trace>>

\* Variant: an off-by-one loop bound that runs one attempt too many.
RangeHasNextInclusive(k) == k <= Attempts

\* range(attempts) has a next value after k iterations.
RangeHasNext(k) == k < Attempts

\* wait_for_file, line 185: for _ in range(attempts); line 212: return None.
ForLoop ==
    /\ pc = "loop"
    /\ IF RangeHasNext(i)
         THEN pc' = "exact" /\ UNCHANGED drive_item
         ELSE pc' = "located" /\ drive_item' = None
    /\ UNCHANGED <<loc, derived, name, drive_rel, resp, echoed, raised, i, url, children,
                   cand, results, last, downloaded, report, trace>>

\* Variant: the exact-path item is not returned at once.
ExactHitIgnored(out) == FALSE

\* Line 188: `if item:`.
ExactHit(out) == out.value # None

\* wait_for_file, lines 187-189: the exact-path probe.
ProbeExact ==
    /\ pc = "exact"
    /\ \E r \in IF ExactSendsRequest(drive_rel, name)
                  THEN ExactResponses(name)
                  ELSE {ReadResponse("skipped", <<>>, None)} :
         LET out == get_drive_item_by_exact_path(drive_rel, name, r) IN
           /\ trace' = IF ExactSendsRequest(drive_rel, name)
                         THEN Append(trace, Event(i + 1, "exact"))
                         ELSE trace
           /\ last' = Probe("exact", r.kind, out.value)
           /\ IF out.raised # "none"
                THEN Crash(out.raised) /\ UNCHANGED drive_item
              ELSE IF ExactHit(out)
                THEN pc' = "located" /\ drive_item' = out.value
                       /\ UNCHANGED raised
              ELSE pc' = "list" /\ UNCHANGED <<drive_item, raised>>
    /\ UNCHANGED <<loc, derived, name, drive_rel, resp, echoed, i, url, children, cand,
                   results, downloaded, report>>

\* Variant: the listing's candidates do not end the attempt.
HasCandidateIgnored(cd) == FALSE

\* Line 196: `if cand:`.
HasCandidate(cd) == cd # <<>>

\* wait_for_file, lines 191-197: the folder listing, filtered by name or
\* stem and sorted newest first.  children is dead once the listing gave no
\* candidate (it is reassigned before its next read), so the model drops it.
ProbeChildren ==
    /\ pc = "list"
    /\ \E r \in IF drive_rel # <<>>
                  THEN ChildrenResponses
                  ELSE {ReadResponse("skipped", <<>>, None)} :
         LET out == list_children(drive_rel, r)
             cd  == IF out.value # <<>>
                      THEN SortNewestFirst(FilterCandidates(out.value, name))
                      ELSE <<>>
         IN
           /\ trace' = IF drive_rel # <<>>
                         THEN Append(trace, Event(i + 1, "children"))
                         ELSE trace
           /\ last' = Probe("children", r.kind, None)
           /\ IF out.raised # "none"
                THEN Crash(out.raised) /\ UNCHANGED <<children, cand, drive_item>>
              ELSE IF HasCandidate(cd)
                THEN /\ pc' = "located"
                     /\ drive_item' = Some(cd[1])
                     /\ children' = out.value
                     /\ cand' = cd
                     /\ UNCHANGED raised
              ELSE /\ pc' = "search"
                   /\ children' = <<>>
                   /\ cand' = cd
                   /\ UNCHANGED <<drive_item, raised>>
    /\ UNCHANGED <<loc, derived, name, drive_rel, resp, echoed, i, url, results,
                   downloaded, report>>

\* wait_for_file, lines 199-210: one GET of search_by_name's pagination;
\* after the last page the rows are partitioned, sorted and the first wins.
ProbeSearch ==
    /\ pc = "search"
    /\ \E r \in PageResponses(name, MaxLen - Len(results)) :
         LET out == search_page(results, r) IN
           /\ trace' = IF url = "first"
                         THEN Append(trace, Event(i + 1, "search"))
                         ELSE trace
           /\ last' = Probe("search", r.kind, None)
           /\ IF out.raised # "none"
                THEN Crash(out.raised) /\ UNCHANGED <<url, results, drive_item>>
              ELSE IF out.more
                THEN /\ pc' = "search"
                     /\ url' = r.next[1]
                     /\ results' = out.value
                     /\ UNCHANGED <<drive_item, raised>>
              ELSE IF out.value # <<>>
                THEN LET pick == PickNewest(Preferred(out.value, drive_rel)) IN
                     /\ url' = "first"
                     /\ results' = out.value
                     /\ IF pick.raised # "none"
                          THEN Crash(pick.raised) /\ UNCHANGED drive_item
                          ELSE /\ pc' = "located"
                               /\ drive_item' = pick.value
                               /\ UNCHANGED raised
              ELSE /\ pc' = "sleep"
                   /\ url' = "first"
                   /\ results' = <<>>
                   /\ UNCHANGED <<drive_item, raised>>
    /\ UNCHANGED <<loc, derived, name, drive_rel, resp, echoed, i, children, cand,
                   downloaded, report>>

\* Variant: the retry goes back to main's restore submission.
LoopBackToRestore == "restore"

\* Where the loop body's end leads: the for statement of wait_for_file.
LoopBack == "loop"

\* wait_for_file, line 211: time.sleep(sleep_sec), then the next iteration.
Sleep ==
    /\ pc = "sleep"
    /\ trace' = Append(trace, Event(i + 1, "sleep"))
    /\ i' = i + 1
    /\ pc' = LoopBack
    /\ UNCHANGED <<loc, derived, name, drive_rel, resp, echoed, raised, url, children,
                   cand, results, drive_item, last, downloaded, report>>

\* SIGINT while wait_for_file is at the top of an attempt or in time.sleep:
\* KeyboardInterrupt is raised outside every try block of the function.
Interrupt ==
    /\ pc \in {"loop", "sleep"}
    /\ last' = Probe(pc, "interrupt", None)
    /\ Crash("KeyboardInterrupt")
    /\ UNCHANGED <<loc, derived, name, drive_rel, resp, echoed, i, url,
                   children, cand, results, drive_item, downloaded, report,
                   trace>>

\* main, lines 295-298: the folder read back from parentReference.path.
RootPrefix == <<"/", "r", ":", "/">>
RestoredPathHint(it) ==
    IF StartsWith(it.parent, RootPrefix)
      THEN Unquote(SubSeq(it.parent, Len(RootPrefix) + 1, Len(it.parent)))
      ELSE <<>>

\* download_file: the GET or raise_for_status fails (RequestException), or
\* writing the local file does (OSError).
DownloadOutcomes == {"none", "RequestException", "OSError"}

\* main, lines 293-310: a found item is downloaded; a failed download is a
\* warning; then the location is reported.
MainTransfer ==
    /\ pc = "located"
    /\ drive_item # None
    /\ \E e \in DownloadOutcomes :
         /\ trace' = Append(trace, Event(0, "download"))
         /\ IF Escapes(e) # "none"
              THEN Crash(e) /\ UNCHANGED <<downloaded, report>>
              ELSE /\ downloaded' = IF e = "none" THEN "ok" ELSE "failed"
                   /\ report' = IF RestoredPathHint(drive_item[1]) # <<>>
                                  THEN "restored_to"
                                ELSE IF drive_rel # <<>> THEN "expected_folder"
                                ELSE "name_only"
                   /\ pc' = "done"
                   /\ UNCHANGED raised
    /\ UNCHANGED <<loc, derived, name, drive_rel, resp, echoed, i, url, children, cand,
                   results, drive_item, last>>

\* main, lines 311-316: nothing found, nothing downloaded.
MainNotFound ==
    /\ pc = "located"
    /\ drive_item = None
    /\ report' = IF drive_rel # <<>> THEN "unresolved_expected_folder"
                 ELSE "unresolved"
    /\ pc' = "done"
    /\ UNCHANGED <<loc, derived, name, drive_rel, resp, echoed, raised, i, url, children,
                   cand, results, drive_item, last, downloaded, trace>>

Next ==
    \/ MainDerive
    \/ MainRestore
    \/ MainRestoreNoResponse
    \/ MainCallWait
    \/ ForLoop
    \/ ProbeExact
    \/ ProbeChildren
    \/ ProbeSearch
    \/ Sleep
    \/ Interrupt
    \/ MainTransfer
    \/ MainNotFound

Spec == Init /\ [][Next]_vars

\* The process is one thread that keeps running until main returns or an
\* exception ends it: a step that can be taken is taken.
FairSpec == Spec /\ WF_vars(Next)

\* derive_drive_rel_path taken alone: called once on any input.
InitDerive ==
    /\ pc = "derive"
    /\ loc \in DeriveInputs
    /\ derived = None
    /\ name \in {<<"r", ".", "x">>}
    /\ drive_rel = <<>>
    /\ resp = None
    /\ echoed = {}
    /\ raised = "none"
    /\ i = 0
    /\ url = "first"
    /\ children = <<>>
    /\ cand = <<>>
    /\ results = <<>>
    /\ drive_item = None
    /\ last = NoProbe
    /\ downloaded = "no"
    /\ report = "none"
    /\ trace = <<>>

CallDerive ==
    /\ pc = "derive"
    /\ derived' = derive_drive_rel_path(loc)
    /\ pc' = "derived"
    /\ UNCHANGED <<loc, name, drive_rel, resp, echoed, raised, i, url,
                   children, cand, results, drive_item, last, downloaded,
                   report, trace>>

NextDerive == CallDerive

DeriveSpec == InitDerive /\ [][NextDerive]_vars

\* ----------------------------------------------------------------- claims
\* Requests and sleeps of attempt n, in the order they happened.
EventsOf(n) == SelectSeq(trace, LAMBDA e : e.attempt = n)
OpsOf(n) == [k \in 1..Len(EventsOf(n)) |-> EventsOf(n)[k].op]
Issued(n, op) == \E k \in 1..Len(trace) : trace[k] = Event(n, op)
Returned == pc \in {"located", "done"}

\* C1: once wait_for_file is entered it returns (Found or Exhausted),
\* whatever the backend answers to the exact-path, children and search
\* requests, continuation links included, unless the run is interrupted.
C1_WaitForFileReturns == (pc = "loop") ~> (Returned \/ pc = "aborted")

\* C2: after `attempts` attempts in which all three probes missed (i counts
\* exactly those), wait_for_file returns None, no probe is started again and
\* nothing is downloaded: the last request on record is the search of the
\* last attempt, followed only by that attempt's sleep.  (A run interrupted
\* before the return is left to C11.)
C2_ExhaustedAfterAllMiss ==
    (i = Attempts /\ pc # "aborted") =>
        /\ pc \in {"loop", "located", "done"}
        /\ drive_item = None
        /\ downloaded = "no"
        /\ Len(trace) >= 2
        /\ trace[Len(trace)] = Event(Attempts, "sleep")
        /\ trace[Len(trace) - 1] = Event(Attempts, "search")
        /\ \A n \in 1..Attempts : Issued(n, "search")

C2_Witness ==
    /\ pc = "done"
    /\ i = Attempts
    /\ report = "unresolved_expected_folder"

\* C3: when the exact-path probe answers with an item, wait_for_file returns
\* that very item, and neither the children request nor the search request
\* is issued in that attempt or in a later one.
C3_ExactHitShortCircuits ==
    (last.probe = "exact" /\ last.kind = "ok") =>
        /\ Returned
        /\ drive_item = last.got
        /\ drive_item # None
        /\ OpsOf(i + 1) = <<"exact">>
        /\ \A k \in 1..Len(trace) : trace[k].attempt <= i + 1

C3_Witness ==
    /\ last.probe = "exact"
    /\ last.kind = "ok"
    /\ pc = "located"
    /\ i = 1

\* C4: in every attempt the requests go out in the order exact-path,
\* children, search; the search is reached only with no exact-path item and
\* no name-or-stem candidate from the listing; a listing with a candidate
\* ends the run as Found with no search request in that attempt.
ProbeOrder(folder) ==
    IF folder = <<>>
      THEN {<<>>, <<"search">>, <<"search", "sleep">>}
      ELSE {<<>>, <<"exact">>, <<"exact", "children">>,
            <<"exact", "children", "search">>,
            <<"exact", "children", "search", "sleep">>}

C4_ProbeOrder ==
    /\ \A n \in 1..Attempts : OpsOf(n) \in ProbeOrder(drive_rel)
    /\ (pc # "aborted" /\ (pc = "search" \/ Issued(i + 1, "search"))) =>
          /\ cand = <<>>
          /\ last.probe \in {"children", "search"}
          /\ pc \in {"search", "sleep"} => drive_item = None
    /\ cand # <<>> =>
          /\ Returned
          /\ drive_item = Some(cand[1])
          /\ OpsOf(i + 1) = <<"exact", "children">>

C4_Witness ==
    /\ cand # <<>>
    /\ pc = "located"
    /\ i = 2
    /\ Len(cand) = 2

\* The expected folder occurs in the row's decoded parent path.
ParentNamesFolder(it, folder) == IsSubstr(folder, Unquote(it.parent))
MatchingRows == SelectSeq(results, LAMBDA r : ParentNamesFolder(r, drive_rel))
ChosenPartition ==
    IF drive_rel # <<>> /\ MatchingRows # <<>> THEN MatchingRows ELSE results
FoundBySearch == Returned /\ results # <<>>

\* C5: with an expected folder and at least one search row whose parent
\* path contains it, the item returned is one of those rows, even when a
\* row elsewhere is newer; with no such row (or no folder) the item is the
\* newest of all rows.
C5_FolderMatchPreferred ==
    FoundBySearch =>
        /\ drive_item # None
        /\ \E k \in 1..Len(results) : results[k] = drive_item[1]
        /\ (drive_rel # <<>> /\ MatchingRows # <<>>) =>
              ParentNamesFolder(drive_item[1], drive_rel)
        /\ (drive_rel = <<>> \/ MatchingRows = <<>>) =>
              \A k \in 1..Len(results) :
                  ~StrLess(drive_item[1].lm, results[k].lm)

C5_Witness ==
    /\ FoundBySearch
    /\ drive_rel # <<>>
    /\ ParentNamesFolder(drive_item[1], drive_rel)
    /\ \E k \in 1..Len(results) :
          /\ ~ParentNamesFolder(results[k], drive_rel)
          /\ StrLess(drive_item[1].lm, results[k].lm)

\* it is in s, nothing in s is newer, and nothing before it is as new.
FirstNewest(it, s) ==
    \E k \in 1..Len(s) :
        /\ s[k] = it
        /\ \A j \in 1..Len(s) : ~StrLess(it.lm, s[j].lm)
        /\ \A j \in 1..(k - 1) : StrLess(s[j].lm, it.lm)

\* C6: the item returned from the filtered listing, and the item returned
\* from the chosen partition of the search rows, is at least as recent as
\* every candidate, and among equally recent ones it is the first in the
\* backend's order.
C6_NewestFirstWins ==
    /\ cand # <<>> =>
          /\ drive_item # None
          /\ FirstNewest(drive_item[1], FilterCandidates(children, name))
    /\ FoundBySearch =>
          /\ drive_item # None
          /\ FirstNewest(drive_item[1], ChosenPartition)

C6_Witness ==
    /\ pc = "located"
    /\ Len(cand) = 2
    /\ StrLess(children[1].lm, children[2].lm)
    /\ drive_item = Some(children[2])

\* C7: a probe answered with a not-found or an error (or whose request
\* raised) gives None / [], no exception leaves wait_for_file, and the loop
\* goes on to the next strategy of the attempt as after any miss.
FailedAnswer == last.kind \in {"notfound", "error"}

C7_ProbeFailureIsMiss ==
    FailedAnswer =>
        /\ raised = "none"
        /\ drive_item = None
        /\ last.probe = "exact" => pc = "list" /\ last.got = None
        /\ last.probe = "children" => pc = "search" /\ cand = <<>>
        /\ last.probe = "search" =>
              /\ results = <<>>
              /\ url = "first"
              /\ pc \in {"sleep", "loop", "exact", "located", "done"}
              /\ Returned => i = Attempts

C7_Witness ==
    /\ last = Probe("children", "error", None)
    /\ pc = "search"
    /\ trace[Len(trace)] = Event(i + 1, "children")

\* C8: a restore answered 207 with an acknowledgement list that omits the
\* requested id does not raise: main goes on to call wait_for_file, the
\* echoed ids exclude the id and the requested ids include it; an empty or
\* absent list raises nothing either.
PartialSuccess == resp # None /\ resp[1].status = 207

C8_PartialSuccessNotAnError ==
    /\ (PartialSuccess /\ resp[1].kind = "value" /\ RbId \notin resp[1].ids) =>
          /\ raised = "none"
          /\ pc = "restored"
          /\ ENABLED MainCallWait
          /\ echoed = resp[1].ids
          /\ RbId \notin echoed
          /\ RbId \in RequestedIds
    /\ (PartialSuccess /\ resp[1].kind \in {"empty", "novalue"}) =>
          /\ raised = "none"
          /\ pc = "restored"
          /\ echoed = {}

C8_Witness ==
    /\ PartialSuccess
    /\ resp[1].kind = "value"
    /\ resp[1].ids = {"id2"}
    /\ pc = "restored"
    /\ echoed = {"id2"}

\* C9 as claimed: batch_restore raises the backend error exactly when the
\* status is outside the success class 2xx.
SuccessClass(st) == st \in 200..299

C9_RaisesIffNotSuccessClass ==
    resp # None => (raised = "RuntimeError" <=> ~SuccessClass(resp[1].status))

\* C9, amended: batch_restore raises the backend error exactly when the
\* status is none of 200, 201, 202, 204, 207; an accepted status with an
\* empty or well-formed body yields an outcome.
C9_RaisesIffNotAccepted ==
    resp # None =>
        /\ raised = "RuntimeError" <=>
              resp[1].status \notin {200, 201, 202, 204, 207}
        /\ (/\ resp[1].status \in {200, 201, 202, 204, 207}
            /\ resp[1].kind \notin {"malformed", "nullvalue"}) =>
              raised = "none" /\ pc = "restored"

C9_Witness ==
    /\ resp # None
    /\ resp[1].status = 206
    /\ pc = "crashed"
    /\ raised = "RuntimeError"

\* C10: restore, then locate, then transfer: requests of wait_for_file are
\* issued only after the restore returned without error, a restore error
\* ends the run with no probe and no download, and the download happens only
\* once wait_for_file has returned an item, right after the probe that
\* found it.
ProbeOps == {"exact", "children", "search"}
InWaitForFile == pc \in {"loop", "exact", "list", "search", "sleep", "located"}

C10_RestoreLocateTransfer ==
    /\ Len(trace) > 1 => trace[1] = Event(0, "restore_ok")
    /\ InWaitForFile => trace # <<>> /\ trace[1] = Event(0, "restore_ok")
    /\ (trace # <<>> /\ trace[1].op = "restore_error") =>
          /\ pc = "crashed"
          /\ downloaded = "no"
    /\ \A k \in 1..Len(trace) :
          trace[k].op = "download" =>
              /\ k = Len(trace)
              /\ k > 2
              /\ trace[k - 1].op \in ProbeOps
              /\ drive_item # None
              /\ pc \in {"done", "crashed"}
    /\ downloaded # "no" => trace[Len(trace)].op = "download"
    /\ drive_item = None => downloaded = "no"

C10_Witness ==
    /\ pc = "done"
    /\ downloaded = "ok"
    /\ i = 1
    /\ trace[Len(trace) - 1] = Event(2, "search")

\* -------------------------------------------- claims on the path deriver
CalledOn(s) == pc = "derived" /\ loc = Some(s)
SuffixFrom(s, k) == SubSeq(s, k, Len(s))

\* C12: for a non-empty location that contains the library token, the result
\* is the suffix of the trimmed location (line 122) that starts at the last
\* occurrence of the token: it starts with the token and holds it once.
C12_SuffixFromLastToken ==
    (pc = "derived" /\ loc # None /\ loc[1] # <<>> /\ IsSubstr(Token, loc[1]))
      => /\ derived # None
         /\ derived[1] = SuffixFrom(TrimLocation(loc[1]),
                                    Max(Occurrences(TrimLocation(loc[1]), Token)))
         /\ Occurrences(derived[1], Token) = {1}

\* The token twice, behind a leading slash: "/S D/S D" gives "S D".
C12_Witness ==
    /\ CalledOn(<<"/">> \o Token \o <<"/">> \o Token)
    /\ derived = Some(Token)

\* Slash positions k of p that split it as root "/" seg "/" rest, with seg one
\* non-empty segment and rest non-empty.
ShapeSplits(p) ==
    {k \in 4..(Len(p) - 1) :
        /\ SubSeq(p, 1, 2) = SitesPrefix
        /\ p[k] = "/"
        /\ \A j \in 3..(k - 1) : p[j] # "/"}

\* C13: a location without the token of the shape root/seg/rest gives rest;
\* one that matches neither rule gives the trimmed location (line 122) as is.
C13_RestOrUnchanged ==
    (pc = "derived" /\ loc # None /\ loc[1] # <<>> /\ ~IsSubstr(Token, loc[1]))
      => LET p == TrimLocation(loc[1]) IN
           /\ derived # None
           /\ ShapeSplits(p) # {}
                => \E k \in ShapeSplits(p) : derived[1] = SuffixFrom(p, k + 1)
           /\ ShapeSplits(p) = {} => derived[1] = p

\* "s/a/S" gives "S".
C13_Witness ==
    /\ CalledOn(<<"s", "/", "a", "/", "S">>)
    /\ derived = Some(<<"S">>)

\* C14: derive_drive_rel_path returns None for None and for "", and no call
\* of it ends in an exception.
C14_AbsentGivesNone ==
    pc = "derived"
      => /\ raised = "none"
         /\ (loc = None \/ loc = Some(<<>>)) => derived = None

C14_Witness == CalledOn(<<>>) /\ derived = None /\ raised = "none"

\* C20 as stated: the result never begins or ends with a slash, and a
\* location that is empty once its slashes are trimmed gives None.
SlashTrimmed(s) == RStrip(LStrip(s, {"/"}), {"/"})
C20_SlashesTrimmedBothEnds ==
    (pc = "derived" /\ loc # None)
      => /\ derived # None
            => /\ derived[1] # <<>>
               /\ Head(derived[1]) # "/"
               /\ derived[1][Len(derived[1])] # "/"
         /\ SlashTrimmed(loc[1]) = <<>> => derived = None

\* ------------------------------------------------- claims on a whole run
Signalled == last.kind = "interrupt"

\* C11: a cancellation signal (SIGINT) that arrives at the top of an
\* attempt, during the sleep or during a probe request ends the loop at
\* once: the run is aborted with KeyboardInterrupt, no further attempt or
\* request is started, nothing is found, downloaded or reported.
C11_SignalEndsLoop ==
    Signalled
      => /\ pc = "aborted"
         /\ raised = "KeyboardInterrupt"
         /\ drive_item = None
         /\ downloaded = "no"
         /\ report = "none"
         /\ \A k \in 1..Len(trace) :
              /\ trace[k].attempt <= i + 1
              /\ trace[k].op # "download"

\* Interrupted in the sleep of the second attempt, four attempts unused.
C11_Witness ==
    /\ Signalled
    /\ last.probe = "sleep"
    /\ pc = "aborted"
    /\ i = 1
    /\ Issued(2, "search")
    /\ ~Issued(3, "search")

\* The two rankings of wait_for_file applied to a list: the search rows
\* (partition by folder, sort, first) and the listing (filter, sort, first).
RankSearch(rows, folder) == PickNewest(Preferred(rows, folder))
RankListing(rows, nm) == SortNewestFirst(FilterCandidates(rows, nm))

\* C15: ranking the one-element list made of the item that a ranking
\* selected, with the same folder, selects that item again, without error.
C15_RankingIdempotent ==
    /\ FoundBySearch
         => /\ drive_item # None
            /\ RankSearch(<<drive_item[1]>>, drive_rel)
                 = [raised |-> "none", value |-> drive_item]
    /\ (Returned /\ cand # <<>>)
         => /\ drive_item # None
            /\ RankListing(<<drive_item[1]>>, name) = <<drive_item[1]>>

\* Two search rows, the older one in the expected folder and selected.
C15_Witness ==
    /\ FoundBySearch
    /\ pc = "located"
    /\ drive_rel # <<>>
    /\ Len(results) = 2
    /\ drive_item # None
    /\ \E k \in 1..2 : StrLess(drive_item[1].lm, results[k].lm)

Sleeps == Len(SelectSeq(trace, LAMBDA e : e.op = "sleep"))
Exhausted == Returned /\ drive_item = None

\* C16 as stated: the loop sleeps after an all-miss attempt only when another
\* attempt follows, so the last attempt is not followed by a sleep and a run
\* that is exhausted after `attempts` attempts has slept attempts - 1 times.
C16_SleepsOnlyBetweenAttempts ==
    /\ ~Issued(Attempts, "sleep")
    /\ Exhausted => Sleeps = Attempts - 1

RestoreOps == {"restore_ok", "restore_error"}
RestoreEvents == SelectSeq(trace, LAMBDA e : e.op \in RestoreOps)

\* C17: the restore is submitted once per run: never twice, whatever its
\* response and however many attempts follow, and it is the first request
\* of the run, before every probe of wait_for_file.
C17_RestoreSubmittedOnce ==
    /\ Len(RestoreEvents) <= 1
    /\ pc \notin {"selected", "restore"}
         => /\ Len(RestoreEvents) = 1
            /\ trace[1].op \in RestoreOps

\* Found in the fourth attempt after three all-miss attempts: one restore.
C17_Witness ==
    /\ pc = "done"
    /\ i = 3
    /\ downloaded = "ok"
    /\ Len(RestoreEvents) = 1
    /\ Len(trace) > 8

DownloadEvents == SelectSeq(trace, LAMBDA e : e.op = "download")
ReportsLocatedItem == report \in {"restored_to", "expected_folder", "name_only"}

\* C18: once the download of a located item was attempted the run ends
\* normally whether or not it failed: no exception leaves main, the located
\* item is kept and reported (restored path, expected folder or name), the
\* download is attempted once and no probe follows it; a failed download and
\* a successful one differ only in `downloaded`.
C18_DownloadFailureIsWarning ==
    DownloadEvents # <<>>
      => /\ pc = "done"
         /\ raised = "none"
         /\ downloaded \in {"ok", "failed"}
         /\ drive_item # None
         /\ ReportsLocatedItem
         /\ report = "restored_to" <=> RestoredPathHint(drive_item[1]) # <<>>
         /\ Len(DownloadEvents) = 1
         /\ trace[Len(trace)].op = "download"

\* A failed download of an item found in the second attempt.
C18_Witness ==
    /\ downloaded = "failed"
    /\ pc = "done"
    /\ report = "restored_to"
    /\ i = 1
    /\ DownloadEvents # <<>>

FolderAbsent == pc \notin {"selected", "derive", "derived"} /\ drive_rel = <<>>

\* C19: with no derived folder (None or "") no attempt sends an exact-path
\* or a children request, every attempt still sends the search, an item is
\* found by the search only and is the newest of all rows whatever their
\* parent path, and the absent folder raises nothing in wait_for_file.
C19_NoFolderSearchOnly ==
    FolderAbsent
      => /\ \A k \in 1..Len(trace) : trace[k].op \notin {"exact", "children"}
         /\ \A n \in 1..i : OpsOf(n) = <<"search", "sleep">>
         /\ pc = "sleep" => OpsOf(i + 1) = <<"search">>
         /\ cand = <<>>
         /\ (Returned /\ drive_item # None)
              => /\ FoundBySearch
                 /\ FirstNewest(drive_item[1], results)
         /\ pc = "crashed" => \A k \in 1..Len(trace) : trace[k].op \in RestoreOps

\* Second attempt, two rows: one in some folder, the newer one chosen.
C19_Witness ==
    /\ FolderAbsent
    /\ pc = "located"
    /\ i = 1
    /\ Len(results) = 2
    /\ drive_item # None
    /\ \E k \in 1..2 : StrLess(results[k].lm, drive_item[1].lm)

============================================================================
